---- MODULE Spec2Model ----
(***************************************************************************)
(* The usage-threshold alert engine of clawtrol: the GET handler of the    *)
(* usage-alerts route (src/unnamed/part_002) and processUsageResponse.     *)
(*                                                                         *)
(* One check is one call of GET.  The check is cut at its awaits: the load *)
(* of the state file, the credential step (getCredentials and refreshToken *)
(* are execSync calls, so the whole step is synchronous), the usage fetch,  *)
(* the retried fetch, the auth-failure alert and its save, the evaluation  *)
(* with its save, each alert delivery, and the return.                     *)
(*                                                                         *)
(* Spec: checks run one after the other (the next one starts when the      *)
(* previous one has returned) and the state file is written reliably.      *)
(* ShortSpec: the same, with fewer checks.                                 *)
(* DeliverySpec, CredentialSpec, WatermarkSpec: the checks of Spec with    *)
(* more of their history recorded (what the notifier returned for each     *)
(* alert; what getCredentials returned; the notifications per resets_at).  *)
(* OutageSpec: the same, recording whether the auth-failure alert of the   *)
(* current outage was delivered.                                           *)
(* OverlapSpec: a second check can run while the first one waits after its *)
(* load of the state file.                                                 *)
(* FaultSpec: the checks of Spec, and a write of the state file can fail.  *)
(***************************************************************************)
EXTENDS Integers, Sequences, FiniteSets

\* ------------------------------------------------------------------ bounds

\* number of checks (calls of GET) in a behaviour; Date.now() of the k-th is k
MaxChecks == 3

\* number of checks in a behaviour that records the deliveries of the alerts
MaxShortChecks == 2
MaxDeliveryChecks == 2
MaxCredentialChecks == 2
MaxOutageChecks == 2
MaxLiveChecks == 1

\* number of checks in a behaviour in which writes of the state file can fail
MaxFaultChecks == 2

\* the time up to which checks start in a behaviour of overlapping checks
MaxOverlapChecks == 1

\* ------------------------------------------------------- program constants

\* JavaScript null; 0 stands for it: every test the code makes on a nullable
\* value is a truthiness test, and no timestamp or token of the model is 0
NULL == 0

FIVE_HOUR_THRESHOLDS == <<75, 90, 95, 100>>

WEEKLY_THRESHOLDS == <<50, 75, 90, 95, 100>>

\* 5 * 60 * 1000, the margin of the expiry test in GET
GraceMs == 300000

\* ------------------------------------------------------ environment inputs

Windows == {"five_hour", "seven_day"}

\* utilization reported by the usage API, in tenths of a percent
FiveHourUtilizations == {400, 745, 796}

WeeklyUtilizations == {400, 600, 970}

\* resets_at of a window as epoch milliseconds (new Date(s).getTime()), or absent
FiveHourResets == {1000, 2000}

WeeklyResets == {NULL, 1000, 2000}

\* the body of a usage response
Usages ==
  [five_hour : [utilization : FiveHourUtilizations, resets_at : FiveHourResets],
   seven_day : [utilization : WeeklyUtilizations, resets_at : WeeklyResets]]

\* access tokens the keychain can hold
Tokens == {1, 2}

\* what getCredentials can return at time t: a token or none, and an expiry
\* that is absent, inside the 5 minute margin, exactly on it, or beyond it
Credentials(t) ==
  [accessToken : Tokens \cup {NULL},
   expiresAt : {NULL, t + GraceMs - 1, t + GraceMs, t + GraceMs + 1}]

\* what a fetch of the usage API can end in: a 2xx response with a JSON body,
\* a 2xx response whose body does not parse, a non-2xx response, a rejection
FetchOutcomes == {"200", "200-badjson", "401", "403", "500", "network-error"}

ResponseOk(outcome) == outcome \in {"200", "200-badjson"}

IsAuthStatus(outcome) == outcome \in {"401", "403"}

\* ------------------------------------------------------------ pure helpers

\* Array.prototype.includes
Includes(arr, x) == \E i \in DOMAIN arr : arr[i] = x

Elems(arr) == {arr[i] : i \in DOMAIN arr}

\* Math.round of a non-negative number given in tenths: floor(x + 0.5)
MathRound(tenths) == (tenths + 5) \div 10

\* getAlertEmoji: the severity marker of a threshold
getAlertEmoji(percent) ==
  IF percent >= 100 THEN "red"
  ELSE IF percent >= 95 THEN "orange"
  ELSE IF percent >= 90 THEN "yellow"
  ELSE IF percent >= 75 THEN "yellow"
  ELSE "warning"

\* the state returned by loadAlertState when the file cannot be read or parsed
DefaultState ==
  [fiveHourAlerted |-> <<>>, weeklyAlerted |-> <<>>,
   fiveHourResetAt |-> NULL, weeklyResetAt |-> NULL,
   lastCheck |-> 0, lastAuthError |-> NULL, authErrorAlerted |-> FALSE]

\* JSON.stringify of the fields of an AlertState: a number or null becomes the
\* text of the number or the text null (written <<n>> and <<>>), a boolean the
\* text true or false, an array of numbers the array of their texts
StringifyNullable(v) == IF v = NULL THEN <<>> ELSE <<v>>

StringifyBoolean(b) == IF b THEN "true" ELSE "false"

\* JSON.parse of these texts
ParseNullable(text) == IF text = <<>> THEN NULL ELSE text[1]

ParseBoolean(text) == text = "true"

\* JSON.stringify(state, null, 2): the text of the file, as its members
JSONstringify(s) ==
  [fiveHourAlerted |-> s.fiveHourAlerted,
   weeklyAlerted |-> s.weeklyAlerted,
   fiveHourResetAt |-> StringifyNullable(s.fiveHourResetAt),
   weeklyResetAt |-> StringifyNullable(s.weeklyResetAt),
   lastCheck |-> <<s.lastCheck>>,
   lastAuthError |-> StringifyNullable(s.lastAuthError),
   authErrorAlerted |-> StringifyBoolean(s.authErrorAlerted)]

\* JSON.parse(data) of a text written by JSON.stringify
JSONparse(text) ==
  [fiveHourAlerted |-> text.fiveHourAlerted,
   weeklyAlerted |-> text.weeklyAlerted,
   fiveHourResetAt |-> ParseNullable(text.fiveHourResetAt),
   weeklyResetAt |-> ParseNullable(text.weeklyResetAt),
   lastCheck |-> text.lastCheck[1],
   lastAuthError |-> ParseNullable(text.lastAuthError),
   authErrorAlerted |-> ParseBoolean(text.authErrorAlerted)]

\* the state file: whether it exists, whether its text is JSON, and its text
\* (the text of the defaults stands in when there is none to parse)
NoFile == [exists |-> FALSE, parses |-> FALSE, content |-> JSONstringify(DefaultState)]

\* a file whose text is not JSON: an empty or a partly written one
TruncatedFile ==
  [exists |-> TRUE, parses |-> FALSE, content |-> JSONstringify(DefaultState)]

\* loadAlertState: the parsed file, or the defaults when readFile or
\* JSON.parse throws
loadAlertState(file) ==
  IF file.exists /\ file.parses THEN JSONparse(file.content) ELSE DefaultState

\* variant of saveAlertState: lastAuthError is left out of the text, and reads
\* back as null
saveAlertStateWithoutAuthError(s) ==
  [exists |-> TRUE, parses |-> TRUE,
   content |-> [JSONstringify(s) EXCEPT !.lastAuthError = <<>>]]

\* saveAlertState: mkdir and writeFile of the serialised state
saveAlertState(s) == [exists |-> TRUE, parses |-> TRUE, content |-> JSONstringify(s)]

\* what a saveAlertState that rejects can leave behind: the file as it was
\* (mkdir or the open failed) or a partly written one (the write failed after
\* the open with flag 'w' had truncated it)
FailedSave(file) == {file, TruncatedFile}

\* variant of the test of GET on the expiry, with >= for >
TokenExpiredOrExpiring(expiresAt, t) == expiresAt # NULL /\ t >= expiresAt - GraceMs

\* the test of GET on the expiry: expiresAt && now > expiresAt - 5 * 60 * 1000
TokenExpired(expiresAt, t) == expiresAt # NULL /\ t > expiresAt - GraceMs

\* variant of AlertMessage: the marker is taken from the percent
AlertMessageByPercent(window, threshold, percent) ==
  [window |-> window, threshold |-> threshold,
   emoji |-> getAlertEmoji(percent), percent |-> percent]

\* one alert message: the marker of the threshold, the window and the percent;
\* threshold is carried along to tell which crossing the message is for
AlertMessage(window, threshold, percent) ==
  [window |-> window, threshold |-> threshold,
   emoji |-> getAlertEmoji(threshold), percent |-> percent]

\* variant of ResetAlerted: the alerted list is kept across a new window
ResetAlertedNever(alerted, newResetAt, oldResetAt) == alerted

\* lines 274-279: the reset of a window's alerted list when the window is a new one
ResetAlerted(alerted, newResetAt, oldResetAt) ==
  IF newResetAt # NULL /\ oldResetAt # NULL /\ newResetAt # oldResetAt
  THEN <<>> ELSE alerted

\* variant of CheckOne: a threshold the percent has reached is recorded again
\* when it is in the list already
CheckOneRecordingAgain(acc, window, threshold, percent) ==
  IF percent >= threshold
  THEN [alerted |-> Append(acc.alerted, threshold),
        alerts |-> IF Includes(acc.alerted, threshold) THEN acc.alerts
                   ELSE Append(acc.alerts, AlertMessage(window, threshold, percent))]
  ELSE acc

\* variant of CheckOne: the crossing is alerted but not recorded
CheckOneNoPush(acc, window, threshold, percent) ==
  IF percent >= threshold /\ ~Includes(acc.alerted, threshold)
  THEN [acc EXCEPT !.alerts = Append(@, AlertMessage(window, threshold, percent))]
  ELSE acc

\* variant of CheckOne: a percent equal to the threshold does not cross it
CheckOneStrict(acc, window, threshold, percent) ==
  IF percent > threshold /\ ~Includes(acc.alerted, threshold)
  THEN [alerted |-> Append(acc.alerted, threshold),
        alerts |-> Append(acc.alerts, AlertMessage(window, threshold, percent))]
  ELSE acc

\* the body of one iteration of a threshold loop of processUsageResponse
CheckOne(acc, window, threshold, percent) ==
  IF percent >= threshold /\ ~Includes(acc.alerted, threshold)
  THEN [alerted |-> Append(acc.alerted, threshold),
        alerts |-> Append(acc.alerts, AlertMessage(window, threshold, percent))]
  ELSE acc

\* variant of CheckFrom: the loop ends at the first threshold it alerts
RECURSIVE CheckFromUntilAlert(_, _, _, _, _)
CheckFromUntilAlert(i, thresholds, window, percent, acc) ==
  IF i > Len(thresholds) \/ acc.alerts # <<>> THEN acc
  ELSE CheckFromUntilAlert(i + 1, thresholds, window, percent,
                           CheckOne(acc, window, thresholds[i], percent))

RECURSIVE CheckFrom(_, _, _, _, _)
CheckFrom(i, thresholds, window, percent, acc) ==
  IF i > Len(thresholds) THEN acc
  ELSE CheckFrom(i + 1, thresholds, window, percent,
                 CheckOne(acc, window, thresholds[i], percent))

\* a threshold loop: for (const threshold of thresholds) { ... }
CheckThresholds(thresholds, window, percent, alerted, alerts) ==
  CheckFrom(1, thresholds, window, percent, [alerted |-> alerted, alerts |-> alerts])

\* variant of Evaluate: the alerted lists are reset after the threshold loops
EvaluateResetLate(usage, s, t) ==
  LET five == CheckThresholds(FIVE_HOUR_THRESHOLDS, "five_hour",
                MathRound(usage.five_hour.utilization), s.fiveHourAlerted, <<>>)
      week == CheckThresholds(WEEKLY_THRESHOLDS, "seven_day",
                MathRound(usage.seven_day.utilization), s.weeklyAlerted, five.alerts)
  IN [state |-> [s EXCEPT !.fiveHourAlerted =
                            ResetAlerted(five.alerted, usage.five_hour.resets_at,
                                         s.fiveHourResetAt),
                          !.weeklyAlerted =
                            ResetAlerted(week.alerted, usage.seven_day.resets_at,
                                         s.weeklyResetAt),
                          !.fiveHourResetAt = usage.five_hour.resets_at,
                          !.weeklyResetAt = usage.seven_day.resets_at,
                          !.lastCheck = t],
      alerts |-> week.alerts]

\* variant of Evaluate: a new resets_at of either window clears both lists
EvaluateResettingBoth(usage, s, t) ==
  LET rolled == \/ ResetAlerted(<<0>>, usage.five_hour.resets_at, s.fiveHourResetAt) = <<>>
                \/ ResetAlerted(<<0>>, usage.seven_day.resets_at, s.weeklyResetAt) = <<>>
      five == CheckThresholds(FIVE_HOUR_THRESHOLDS, "five_hour",
                MathRound(usage.five_hour.utilization),
                IF rolled THEN <<>> ELSE s.fiveHourAlerted, <<>>)
      week == CheckThresholds(WEEKLY_THRESHOLDS, "seven_day",
                MathRound(usage.seven_day.utilization),
                IF rolled THEN <<>> ELSE s.weeklyAlerted, five.alerts)
  IN [state |-> [s EXCEPT !.fiveHourAlerted = five.alerted,
                          !.weeklyAlerted = week.alerted,
                          !.fiveHourResetAt = usage.five_hour.resets_at,
                          !.weeklyResetAt = usage.seven_day.resets_at,
                          !.lastCheck = t],
      alerts |-> week.alerts]

\* variant of Evaluate: a resets_at that the response lacks leaves the stored
\* one in place
EvaluateKeepingWatermark(usage, s, t) ==
  LET five == CheckThresholds(FIVE_HOUR_THRESHOLDS, "five_hour",
                MathRound(usage.five_hour.utilization),
                ResetAlerted(s.fiveHourAlerted, usage.five_hour.resets_at,
                             s.fiveHourResetAt),
                <<>>)
      week == CheckThresholds(WEEKLY_THRESHOLDS, "seven_day",
                MathRound(usage.seven_day.utilization),
                ResetAlerted(s.weeklyAlerted, usage.seven_day.resets_at,
                             s.weeklyResetAt),
                five.alerts)
  IN [state |-> [s EXCEPT !.fiveHourAlerted = five.alerted,
                          !.weeklyAlerted = week.alerted,
                          !.fiveHourResetAt = IF usage.five_hour.resets_at = NULL
                                              THEN @ ELSE usage.five_hour.resets_at,
                          !.weeklyResetAt = IF usage.seven_day.resets_at = NULL
                                            THEN @ ELSE usage.seven_day.resets_at,
                          !.lastCheck = t],
      alerts |-> week.alerts]

\* processUsageResponse, lines 266-306: the state to write and the alerts to send
Evaluate(usage, s, t) ==
  LET fiveHourPercent == MathRound(usage.five_hour.utilization)
      weeklyPercent == MathRound(usage.seven_day.utilization)
      fiveHourResetAt == usage.five_hour.resets_at
      weeklyResetAt == usage.seven_day.resets_at
      five == CheckThresholds(FIVE_HOUR_THRESHOLDS, "five_hour", fiveHourPercent,
                ResetAlerted(s.fiveHourAlerted, fiveHourResetAt, s.fiveHourResetAt),
                <<>>)
      week == CheckThresholds(WEEKLY_THRESHOLDS, "seven_day", weeklyPercent,
                ResetAlerted(s.weeklyAlerted, weeklyResetAt, s.weeklyResetAt),
                five.alerts)
  IN [state |-> [s EXCEPT !.fiveHourAlerted = five.alerted,
                          !.weeklyAlerted = week.alerted,
                          !.fiveHourResetAt = fiveHourResetAt,
                          !.weeklyResetAt = weeklyResetAt,
                          !.lastCheck = t],
      alerts |-> week.alerts]


\* ------------------------------------------------------------------- state

VARIABLES
  alertStateFile,   \* usage-alerts.json: whether it exists, and its text
  clock,            \* Date.now() of the check that runs or runs next
  pc,               \* where the running check stands ("idle": none is running)
  local,            \* the locals of GET and processUsageResponse
  trace,            \* what the running check has done so far (history)
  hist,             \* what earlier checks have done (history)
  mode,             \* what the behaviour covers: how many checks, whether
                    \* the deliveries of the threshold alerts are recorded,
                    \* whether the notifications are recorded per resets_at,
                    \* whether what getCredentials returned is recorded, and
                    \* whether the delivery of the auth-failure alert is
                    \* recorded across checks
  suspended         \* a check that waits at an await while another one runs

vars == <<alertStateFile, clock, pc, local, trace, hist, mode, suspended>>

\* the body {} : every field of it is absent
NoUsage ==
  [five_hour |-> [utilization |-> 0, resets_at |-> NULL],
   seven_day |-> [utilization |-> 0, resets_at |-> NULL]]

NoResult == [status |-> 0, body |-> "none"]

\* the locals before the first statement of GET
IdleLocal ==
  [state |-> DefaultState, now |-> 0, accessToken |-> NULL, expiresAt |-> NULL,
   site |-> "none", response |-> "none", retryToken |-> NULL, usage |-> NoUsage,
   alerts |-> <<>>, i |-> 1, alertsSent |-> 0, result |-> NoResult]

\* what getCredentials returned at line 164 (history): nothing yet, or whether
\* there was a token, and the expiry
NotRead == [done |-> FALSE, present |-> FALSE, expiresAt |-> NULL]

ReadOf(creds) ==
  [done |-> TRUE, present |-> creds.accessToken # NULL, expiresAt |-> creds.expiresAt]

\* history of one check: the state it loaded and what it loaded it from
\* ("missing": no file, "unparsable": a file that is not JSON, "parsed"), the
\* number of fetches it issued, how the first and the retried fetch ended
\* ("ok", "auth": 401 or 403, "other": another status, "threw"), its refreshes
\* before the first fetch and after a 401/403, the delivery results of its
\* auth-failure alerts, its writes of the state file, the threshold alerts it
\* handed to the notifier with what the notifier returned for each, what
\* getCredentials returned at its start (when that is recorded), and how it ended
NewTrace ==
  [loaded |-> DefaultState, source |-> "none", fetches |-> 0,
   first |-> "none", retry |-> "none", proactiveRefreshes |-> 0,
   reactiveRefreshes |-> 0, authSends |-> <<>>, saves |-> 0, notified |-> <<>>,
   delivered |-> <<>>, read |-> NotRead, outcome |-> "pending"]

\* history of one window over the successful checks: the resets_at of the last
\* one, the thresholds notified since that resets_at was first seen, those of
\* them the notifier did not deliver (when deliveries are recorded), and how
\* it was first seen: "rolled" when it replaced another non-null resets_at,
\* "rearmed" when moreover the lowest threshold had been notified under the
\* replaced one and the check that saw the new one saw a percent below every
\* threshold, "none" otherwise
NewInstance == [resetAt |-> NULL, sent |-> {}, undelivered |-> {}, phase |-> "none"]

\* history of one window when notifications are recorded per resets_at: for
\* every resets_at (NULL: absent) a successful check saw, the thresholds handed
\* to the notifier by the successful checks that saw it
NoneDispatched == [r \in {} |-> {}]

Dispatched(d, resetAt, notifiedNow) ==
  [r \in DOMAIN d \cup {resetAt} |->
     (IF r \in DOMAIN d THEN d[r] ELSE {})
       \cup (IF r = resetAt THEN notifiedNow ELSE {})]

\* a check that has not started
IdleCheck == [pc |-> "idle", local |-> IdleLocal, trace |-> NewTrace]

\* no state file, no check running, and checks that cover `covered`
Start(covered) ==
  /\ alertStateFile = NoFile
  /\ clock = 1
  /\ pc = "idle"
  /\ local = IdleLocal
  /\ trace = NewTrace
  /\ hist = [five_hour |-> NewInstance, seven_day |-> NewInstance,
             authSent |-> 0, authUndelivered |-> FALSE, prev |-> "none",
             dispatched |-> [w \in Windows |-> NoneDispatched]]
  /\ mode = covered
  /\ suspended = IdleCheck

Init == Start([checks |-> MaxChecks, deliveries |-> FALSE, resets |-> FALSE,
         credentials |-> FALSE, outages |-> FALSE])

\* ----------------------------------------------------------------- actions

\* what loadAlertState finds on disk
SourceOf(file) ==
  IF ~file.exists THEN "missing" ELSE IF ~file.parses THEN "unparsable" ELSE "parsed"

\* variant of GET_load: the error of JSON.parse is not caught, and GET, which
\* awaits loadAlertState outside its try, rejects
GET_loadOrThrow ==
  /\ pc = "idle"
  /\ clock <= mode.checks
  /\ local' = [IdleLocal EXCEPT !.state = loadAlertState(alertStateFile),
                                !.now = clock]
  /\ trace' = [NewTrace EXCEPT !.loaded = loadAlertState(alertStateFile),
                               !.source = SourceOf(alertStateFile),
                               !.outcome = IF SourceOf(alertStateFile) = "unparsable"
                                           THEN "rejected" ELSE @]
  /\ pc' = IF SourceOf(alertStateFile) = "unparsable" THEN "rejected" ELSE "credentials"
  /\ UNCHANGED <<alertStateFile, clock, hist, mode, suspended>>

\* GET, line 160: const state = await loadAlertState()
GET_load ==
  /\ pc = "idle"
  /\ clock <= mode.checks
  /\ local' = [IdleLocal EXCEPT !.state = loadAlertState(alertStateFile),
                                !.now = clock]
  /\ trace' = [NewTrace EXCEPT !.loaded = loadAlertState(alertStateFile),
                               !.source = SourceOf(alertStateFile)]
  /\ pc' = "credentials"
  /\ UNCHANGED <<alertStateFile, clock, hist, mode, suspended>>

\* the credentials GET holds after lines 164-181, given what getCredentials
\* returned, whether refreshToken succeeded and what the re-read returned
AfterProactiveRefresh(creds, refreshed, newCreds, t) ==
  IF (creds.accessToken = NULL \/ TokenExpired(creds.expiresAt, t)) /\ refreshed
  THEN newCreds ELSE creds

\* entry of an auth-failure block (lines 185-195 and 233-244): the alert is
\* sent when authErrorAlerted is false, else GET returns at once; result is
\* the response GET returns at the end of the block
AuthFailure(site, status) ==
  /\ local' = [local EXCEPT !.site = site, !.accessToken = NULL, !.expiresAt = NULL,
                            !.response = "none", !.retryToken = NULL,
                            !.result = [status |-> status, body |-> "error"]]
  /\ pc' = IF local.state.authErrorAlerted THEN "return" ELSE "authAlert"
  /\ UNCHANGED <<alertStateFile, clock, hist, mode, suspended>>

\* GET, lines 164-205: read the credentials, refresh them when the token is
\* missing or expiring, give up when there is still no token, else issue the fetch
GET_credentials ==
  /\ pc = "credentials"
  /\ \E creds \in Credentials(local.now) :
       LET needsRefresh == creds.accessToken = NULL
                             \/ TokenExpired(creds.expiresAt, local.now)
           t1 == [trace EXCEPT !.proactiveRefreshes = IF needsRefresh THEN 1 ELSE 0,
                               !.read = IF mode.credentials THEN ReadOf(creds) ELSE @]
       IN \E refreshed \in IF needsRefresh THEN BOOLEAN ELSE {FALSE} :
          \E newCreds \in IF refreshed THEN Credentials(local.now) ELSE {creds} :
            LET after == AfterProactiveRefresh(creds, refreshed, newCreds, local.now)
            IN IF needsRefresh /\ after.accessToken = NULL
               THEN /\ trace' = [t1 EXCEPT !.outcome = "hard"]
                    /\ AuthFailure("credentials", 401)
               ELSE /\ local' = [local EXCEPT !.accessToken = after.accessToken,
                                              !.expiresAt = after.expiresAt]
                    /\ trace' = [t1 EXCEPT !.fetches = @ + 1]
                    /\ pc' = "fetch"
                    /\ UNCHANGED <<alertStateFile, clock, hist, mode, suspended>>

\* variant of Catch: the failure is recorded as an auth error and saved
CatchMarkingAuthError ==
  /\ local' = [local EXCEPT !.accessToken = NULL, !.expiresAt = NULL,
                            !.response = "none", !.retryToken = NULL,
                            !.state.authErrorAlerted = TRUE,
                            !.state.lastAuthError = local.now,
                            !.result = [status |-> 500, body |-> "error"]]
  /\ alertStateFile' = saveAlertState([local.state EXCEPT !.authErrorAlerted = TRUE,
                                                          !.lastAuthError = local.now])
  /\ trace' = [trace EXCEPT !.outcome = "generic", !.saves = @ + 1,
                            !.first = IF pc = "fetch" THEN "threw" ELSE @,
                            !.retry = IF pc = "retry" THEN "threw" ELSE @]
  /\ pc' = "return"
  /\ UNCHANGED <<clock, hist, mode, suspended>>

\* the catch block of GET, lines 256-261
Catch ==
  /\ local' = [local EXCEPT !.accessToken = NULL, !.expiresAt = NULL,
                            !.response = "none", !.retryToken = NULL,
                            !.result = [status |-> 500, body |-> "error"]]
  /\ trace' = [trace EXCEPT !.outcome = "generic",
                            !.first = IF pc = "fetch" THEN "threw" ELSE @,
                            !.retry = IF pc = "retry" THEN "threw" ELSE @]
  /\ pc' = "return"
  /\ UNCHANGED <<alertStateFile, clock, hist, mode, suspended>>

StatusOf(outcome) ==
  IF outcome = "401" THEN 401 ELSE IF outcome = "403" THEN 403
  ELSE IF outcome = "500" THEN 500 ELSE 200

\* lines 247-251: a successful first response clears the auth error state
ClearAuthError(s) ==
  IF s.authErrorAlerted
  THEN [s EXCEPT !.authErrorAlerted = FALSE, !.lastAuthError = NULL]
  ELSE s

\* GET, lines 207-245: the first response is not OK
FetchNotOk(outcome) ==
  IF IsAuthStatus(outcome)
  THEN \E refreshed \in BOOLEAN :
       \E newCreds \in IF refreshed THEN Credentials(local.now)
                       ELSE {[accessToken |-> NULL, expiresAt |-> NULL]} :
         IF refreshed /\ newCreds.accessToken # NULL
         THEN /\ local' = [local EXCEPT !.response = outcome,
                                        !.accessToken = NULL, !.expiresAt = NULL,
                                        !.retryToken = newCreds.accessToken]
              /\ trace' = [trace EXCEPT !.first = "auth",
                                        !.reactiveRefreshes = @ + 1,
                                        !.fetches = @ + 1]
              /\ pc' = "retry"
              /\ UNCHANGED <<alertStateFile, clock, hist, mode, suspended>>
         ELSE /\ trace' = [trace EXCEPT !.first = "auth",
                                        !.reactiveRefreshes = @ + 1,
                                        !.outcome = "hard"]
              /\ AuthFailure("api", StatusOf(outcome))
  ELSE /\ local' = [local EXCEPT !.accessToken = NULL, !.expiresAt = NULL,
                                 !.result = [status |-> StatusOf(outcome),
                                             body |-> "error"]]
       /\ trace' = [trace EXCEPT !.first = "other", !.outcome = "generic"]
       /\ pc' = "return"
       /\ UNCHANGED <<alertStateFile, clock, hist, mode, suspended>>

\* GET, lines 247-254: the first response is OK; response.json() yields the
\* body or throws
FetchOk(outcome) ==
  IF outcome = "200-badjson"
  THEN /\ local' = [local EXCEPT !.state = ClearAuthError(@),
                                 !.accessToken = NULL, !.expiresAt = NULL,
                                 !.result = [status |-> 500, body |-> "error"]]
       /\ trace' = [trace EXCEPT !.first = "ok", !.outcome = "generic"]
       /\ pc' = "return"
       /\ UNCHANGED <<alertStateFile, clock, hist, mode, suspended>>
  ELSE \E body \in Usages :
       /\ local' = [local EXCEPT !.state = ClearAuthError(@),
                                 !.accessToken = NULL, !.expiresAt = NULL,
                                 !.usage = body]
       /\ trace' = [trace EXCEPT !.first = "ok"]
       /\ pc' = "process"
       /\ UNCHANGED <<alertStateFile, clock, hist, mode, suspended>>

\* GET, lines 200-254: the response of the first fetch arrives
GET_fetch ==
  /\ pc = "fetch"
  /\ \E outcome \in FetchOutcomes :
       IF outcome = "network-error" THEN Catch
       ELSE IF ResponseOk(outcome) THEN FetchOk(outcome)
       ELSE FetchNotOk(outcome)

\* variant of GET_retry: a retried fetch that is not OK is retried again
GET_retryAgain ==
  /\ pc = "retry"
  /\ \E outcome \in FetchOutcomes :
       IF outcome \in {"network-error", "200-badjson"} THEN Catch
       ELSE IF ResponseOk(outcome)
         THEN \E body \in Usages :
              /\ local' = [local EXCEPT !.response = "none", !.retryToken = NULL,
                                        !.usage = body]
              /\ trace' = [trace EXCEPT !.retry = "ok"]
              /\ pc' = "process"
              /\ UNCHANGED <<alertStateFile, clock, hist, mode, suspended>>
         ELSE /\ trace' = [trace EXCEPT !.fetches = @ + 1]
              /\ UNCHANGED <<alertStateFile, clock, pc, local, hist, mode, suspended>>

\* GET, lines 217-244: the response of the retried fetch arrives
GET_retry ==
  /\ pc = "retry"
  /\ \E outcome \in FetchOutcomes :
       IF outcome \in {"network-error", "200-badjson"} THEN Catch
       ELSE IF ResponseOk(outcome)
         THEN \E body \in Usages :
              /\ local' = [local EXCEPT !.response = "none", !.retryToken = NULL,
                                        !.usage = body]
              /\ trace' = [trace EXCEPT !.retry = "ok"]
              /\ pc' = "process"
              /\ UNCHANGED <<alertStateFile, clock, hist, mode, suspended>>
         ELSE /\ trace' = [trace EXCEPT !.retry = IF IsAuthStatus(outcome)
                                                   THEN "auth" ELSE "other",
                                        !.outcome = "hard"]
              /\ AuthFailure("api", StatusOf(local.response))

\* variant of GET_sendAuthAlert: authErrorAlerted is not set
GET_sendAuthAlertNoFlag ==
  /\ pc = "authAlert"
  /\ \E delivered \in BOOLEAN :
       /\ trace' = [trace EXCEPT !.authSends = Append(@, delivered)]
       /\ hist' = [hist EXCEPT !.authSent = @ + 1,
                               !.authUndelivered = IF mode.outages
                                                   THEN ~delivered ELSE @]
  /\ local' = [local EXCEPT !.state.lastAuthError = local.now]
  /\ pc' = "authSave"
  /\ UNCHANGED <<alertStateFile, clock, mode, suspended>>

\* variant of GET_sendAuthAlert: authErrorAlerted and lastAuthError are set
\* only when the alert was delivered
GET_sendAuthAlertIfDelivered ==
  /\ pc = "authAlert"
  /\ \E delivered \in BOOLEAN :
       /\ trace' = [trace EXCEPT !.authSends = Append(@, delivered)]
       /\ hist' = [hist EXCEPT !.authSent = @ + 1,
                               !.authUndelivered = IF mode.outages
                                                   THEN ~delivered ELSE @]
       /\ local' = IF delivered
                   THEN [local EXCEPT !.state.authErrorAlerted = TRUE,
                                      !.state.lastAuthError = local.now]
                   ELSE local
  /\ pc' = "authSave"
  /\ UNCHANGED <<alertStateFile, clock, mode, suspended>>

\* lines 186-192 and 234-240: await sendTelegramAlert(...), whose result is
\* dropped, then the two assignments
GET_sendAuthAlert ==
  /\ pc = "authAlert"
  /\ \E delivered \in BOOLEAN :
       /\ trace' = [trace EXCEPT !.authSends = Append(@, delivered)]
       /\ hist' = [hist EXCEPT !.authSent = @ + 1,
                               !.authUndelivered = IF mode.outages
                                                   THEN ~delivered ELSE @]
  /\ local' = [local EXCEPT !.state.authErrorAlerted = TRUE,
                            !.state.lastAuthError = local.now]
  /\ pc' = "authSave"
  /\ UNCHANGED <<alertStateFile, clock, mode, suspended>>

\* lines 193 and 241: await saveAlertState(state)
GET_saveAuthAlert ==
  /\ pc = "authSave"
  /\ alertStateFile' = saveAlertState(local.state)
  /\ trace' = [trace EXCEPT !.saves = @ + 1]
  /\ pc' = "return"
  /\ UNCHANGED <<clock, local, hist, mode, suspended>>

\* variant of processUsageResponse_evaluate: the thresholds are evaluated
\* against the alerted lists and the resets_at that the file holds now
processUsageResponse_evaluateFresh ==
  /\ pc = "process"
  /\ LET stored == loadAlertState(alertStateFile)
         fresh == [local.state EXCEPT !.fiveHourAlerted = stored.fiveHourAlerted,
                                      !.weeklyAlerted = stored.weeklyAlerted,
                                      !.fiveHourResetAt = stored.fiveHourResetAt,
                                      !.weeklyResetAt = stored.weeklyResetAt]
         r == Evaluate(local.usage, fresh, local.now)
     IN /\ local' = [local EXCEPT !.state = r.state, !.alerts = r.alerts]
        /\ alertStateFile' = saveAlertState(r.state)
  /\ trace' = [trace EXCEPT !.saves = @ + 1]
  /\ pc' = "dispatch"
  /\ UNCHANGED <<clock, hist, mode, suspended>>

\* variant of processUsageResponse_evaluate: the state is not written before
\* the alerts are sent
processUsageResponse_evaluateUnsaved ==
  /\ pc = "process"
  /\ LET r == Evaluate(local.usage, local.state, local.now)
     IN local' = [local EXCEPT !.state = r.state, !.alerts = r.alerts]
  /\ pc' = "dispatch"
  /\ UNCHANGED <<alertStateFile, clock, trace, hist, mode, suspended>>

\* processUsageResponse, lines 266-307: the evaluation and the save
processUsageResponse_evaluate ==
  /\ pc = "process"
  /\ LET r == Evaluate(local.usage, local.state, local.now)
     IN /\ local' = [local EXCEPT !.state = r.state, !.alerts = r.alerts]
        /\ alertStateFile' = saveAlertState(r.state)
  /\ trace' = [trace EXCEPT !.saves = @ + 1]
  /\ pc' = "dispatch"
  /\ UNCHANGED <<clock, hist, mode, suspended>>

\* variant of processUsageResponse_send: the loop is left at the first alert
\* that is not delivered
processUsageResponse_sendOrBreak ==
  /\ pc = "dispatch"
  /\ local.i <= Len(local.alerts)
  /\ \E sent \in BOOLEAN :
       /\ local' = [local EXCEPT !.i = IF sent THEN @ + 1 ELSE Len(local.alerts) + 1,
                                 !.alertsSent = IF sent THEN @ + 1 ELSE @]
       /\ trace' = [trace EXCEPT !.notified = Append(@, local.alerts[local.i]),
                                 !.delivered = IF mode.deliveries
                                               THEN Append(@, sent) ELSE @]
  /\ UNCHANGED <<alertStateFile, clock, pc, hist, mode, suspended>>

\* an alerted list without a threshold
Without(alerted, threshold) == SelectSeq(alerted, LAMBDA x : x # threshold)

\* variant of processUsageResponse_send: an alert that is not delivered is
\* taken out of the alerted list again and the state is written once more
processUsageResponse_sendOrRollBack ==
  /\ pc = "dispatch"
  /\ local.i <= Len(local.alerts)
  /\ \E sent \in BOOLEAN :
       LET a == local.alerts[local.i]
           s == IF sent THEN local.state
                ELSE IF a.window = "five_hour"
                     THEN [local.state EXCEPT
                             !.fiveHourAlerted = Without(@, a.threshold)]
                     ELSE [local.state EXCEPT
                             !.weeklyAlerted = Without(@, a.threshold)]
       IN /\ local' = [local EXCEPT !.i = @ + 1, !.state = s,
                                    !.alertsSent = IF sent THEN @ + 1 ELSE @]
          /\ alertStateFile' = saveAlertState(s)
          /\ trace' = [trace EXCEPT !.notified = Append(@, a),
                                    !.delivered = IF mode.deliveries
                                                  THEN Append(@, sent) ELSE @]
  /\ UNCHANGED <<clock, pc, hist, mode, suspended>>

\* processUsageResponse, lines 311-314: one iteration of the send loop
processUsageResponse_send ==
  /\ pc = "dispatch"
  /\ local.i <= Len(local.alerts)
  /\ \E sent \in BOOLEAN :
       /\ local' = [local EXCEPT !.i = @ + 1,
                                 !.alertsSent = IF sent THEN @ + 1 ELSE @]
       /\ trace' = [trace EXCEPT !.notified = Append(@, local.alerts[local.i]),
                                 !.delivered = IF mode.deliveries
                                               THEN Append(@, sent) ELSE @]
  /\ UNCHANGED <<alertStateFile, clock, pc, hist, mode, suspended>>

\* processUsageResponse, lines 316-324: the response of a successful check
processUsageResponse_return ==
  /\ pc = "dispatch"
  /\ local.i > Len(local.alerts)
  /\ local' = [local EXCEPT !.result = [status |-> 200, body |-> "checked",
                                        alertsTriggered |-> Len(local.alerts),
                                        alertsSent |-> local.alertsSent]]
  /\ trace' = [trace EXCEPT !.outcome = "success"]
  /\ pc' = "return"
  /\ UNCHANGED <<alertStateFile, clock, hist, mode, suspended>>

\* the thresholds of a window among the alerts handed to the notifier
NotifiedFor(window, notified) ==
  {notified[k].threshold : k \in {j \in DOMAIN notified : notified[j].window = window}}

\* the thresholds of a window among the alerts the notifier did not deliver
UndeliveredFor(window, notified, delivered) ==
  {notified[k].threshold :
     k \in {j \in DOMAIN notified : notified[j].window = window /\ ~delivered[j]}}

\* the history of a window after a successful check that saw resetAt and percent
NextInstance(inst, resetAt, percent, thresholds, notifiedNow, undeliveredNow) ==
  IF resetAt # NULL /\ resetAt = inst.resetAt
  THEN [inst EXCEPT !.sent = @ \cup notifiedNow,
                    !.undelivered = @ \cup undeliveredNow]
  ELSE [resetAt |-> resetAt,
        sent |-> notifiedNow,
        undelivered |-> undeliveredNow,
        phase |-> IF resetAt = NULL \/ inst.resetAt = NULL THEN "none"
                  ELSE IF thresholds[1] \in inst.sent /\ percent < thresholds[1]
                       THEN "rearmed" ELSE "rolled"]

\* GET has returned: the scheduler may start the next check
GET_return ==
  /\ pc = "return"
  /\ pc' = "idle"
  /\ clock' = clock + 1
  /\ local' = IdleLocal
  /\ trace' = NewTrace
  /\ hist' = IF trace.outcome = "success"
             THEN [five_hour |-> NextInstance(hist.five_hour,
                                   local.usage.five_hour.resets_at,
                                   MathRound(local.usage.five_hour.utilization),
                                   FIVE_HOUR_THRESHOLDS,
                                   NotifiedFor("five_hour", trace.notified),
                                   IF mode.deliveries
                                   THEN UndeliveredFor("five_hour", trace.notified,
                                                       trace.delivered)
                                   ELSE {}),
                   seven_day |-> NextInstance(hist.seven_day,
                                   local.usage.seven_day.resets_at,
                                   MathRound(local.usage.seven_day.utilization),
                                   WEEKLY_THRESHOLDS,
                                   NotifiedFor("seven_day", trace.notified),
                                   IF mode.deliveries
                                   THEN UndeliveredFor("seven_day", trace.notified,
                                                       trace.delivered)
                                   ELSE {}),
                   authSent |-> 0,
                   authUndelivered |-> FALSE,
                   prev |-> "success",
                   dispatched |->
                     IF mode.resets
                     THEN [w \in Windows |->
                             Dispatched(hist.dispatched[w], local.usage[w].resets_at,
                                        NotifiedFor(w, trace.notified))]
                     ELSE hist.dispatched]
             ELSE [hist EXCEPT !.prev = trace.outcome]
  /\ UNCHANGED <<alertStateFile, mode, suspended>>

Next ==
  \/ GET_load
  \/ GET_credentials
  \/ GET_fetch
  \/ GET_retry
  \/ GET_sendAuthAlert
  \/ GET_saveAuthAlert
  \/ processUsageResponse_evaluate
  \/ processUsageResponse_send
  \/ processUsageResponse_return
  \/ GET_return

Spec == Init /\ [][Next]_vars

\* ------------------------------------------- one check and the next

ShortInit ==
  Start([checks |-> MaxShortChecks, deliveries |-> FALSE, resets |-> FALSE,
         credentials |-> FALSE, outages |-> FALSE])

\* the checks of Spec, fewer of them: for what one check does with the state
\* an earlier one has left
ShortSpec == ShortInit /\ [][Next]_vars

\* ------------------------------------------- the deliveries of the alerts

DeliveryInit ==
  Start([checks |-> MaxDeliveryChecks, deliveries |-> TRUE, resets |-> FALSE,
         credentials |-> FALSE, outages |-> FALSE])

\* the checks of Spec, fewer of them, with what the notifier returned recorded
DeliverySpec == DeliveryInit /\ [][Next]_vars

\* ------------------------------------------- the credentials a check reads

CredentialInit ==
  Start([checks |-> MaxCredentialChecks, deliveries |-> FALSE, resets |-> FALSE,
         credentials |-> TRUE, outages |-> FALSE])

\* the checks of Spec, fewer of them, with what getCredentials returned recorded
CredentialSpec == CredentialInit /\ [][Next]_vars

\* ------------------------------------------ a collaborator that never answers

LiveInit ==
  Start([checks |-> MaxLiveChecks, deliveries |-> FALSE, resets |-> FALSE,
         credentials |-> FALSE, outages |-> FALSE])

\* the checks of Spec, where every step that does not wait for the network is
\* eventually taken: the reads and writes of the state file, the credential
\* step (its execSync calls have timeouts of 5 and 60 seconds), the evaluation
\* and the returns.  The fetches of the usage API (lines 200, 217) and the
\* fetch of sendTelegramAlert (line 62) are issued without a timeout or an
\* abort signal, so nothing makes the steps that wait for them happen.
LiveSpec ==
  /\ LiveInit
  /\ [][Next]_vars
  /\ WF_vars(GET_load)
  /\ WF_vars(GET_credentials)
  /\ WF_vars(GET_saveAuthAlert)
  /\ WF_vars(processUsageResponse_evaluate)
  /\ WF_vars(processUsageResponse_return)
  /\ WF_vars(GET_return)

\* ------------------------------------------ the alert of an outage

OutageInit ==
  Start([checks |-> MaxOutageChecks, deliveries |-> FALSE, resets |-> FALSE,
         credentials |-> FALSE, outages |-> TRUE])

\* the checks of Spec, with what the notifier returned for the auth-failure
\* alert sent since the last successful check recorded
OutageSpec == OutageInit /\ [][Next]_vars

\* ------------------------------------- the notifications of a window instance

WatermarkInit == Start([checks |-> MaxChecks, deliveries |-> FALSE, resets |-> TRUE,
         credentials |-> FALSE, outages |-> FALSE])

\* the checks of Spec, with the notifications recorded per resets_at
WatermarkSpec == WatermarkInit /\ [][Next]_vars

\* ------------------------------------------------------ overlapping checks

\* GET is an async function and takes no lock: nothing keeps a second request
\* from being served while a check is in flight.  The overlap followed here is
\* the one in which both checks read the state file before either writes it:
\* the running check has read the file (line 160) when the event loop serves
\* another request, and it goes on once that one has returned
Overlap ==
  /\ \/ pc = "credentials" /\ suspended.pc = "idle"
     \/ pc = "idle" /\ suspended.pc # "idle"
  /\ suspended' = [pc |-> pc, local |-> local, trace |-> trace]
  /\ pc' = suspended.pc
  /\ local' = suspended.local
  /\ trace' = suspended.trace
  /\ UNCHANGED <<alertStateFile, clock, hist, mode>>

OverlapInit ==
  Start([checks |-> MaxOverlapChecks, deliveries |-> FALSE, resets |-> FALSE,
         credentials |-> FALSE, outages |-> FALSE])

OverlapNext ==
  \/ GET_load
  \/ GET_credentials
  \/ GET_fetch
  \/ GET_retry
  \/ GET_sendAuthAlert
  \/ GET_saveAuthAlert
  \/ processUsageResponse_evaluate
  \/ processUsageResponse_send
  \/ processUsageResponse_return
  \/ GET_return
  \/ Overlap

\* two checks that may overlap, against a state file that is written reliably
OverlapSpec == OverlapInit /\ [][OverlapNext]_vars

\* ------------------------------------------------- a store whose writes fail

\* lines 193 and 241 when saveAlertState rejects: the await is inside the try
\* of GET, so the catch block (lines 256-261) answers with status 500
GET_saveAuthAlertRejects ==
  /\ pc = "authSave"
  /\ alertStateFile' \in FailedSave(alertStateFile)
  /\ local' = [local EXCEPT !.result = [status |-> 500, body |-> "error"]]
  /\ trace' = [trace EXCEPT !.outcome = "generic"]
  /\ pc' = "return"
  /\ UNCHANGED <<clock, hist, mode, suspended>>

\* processUsageResponse, lines 266-307, when saveAlertState rejects: the
\* promise of processUsageResponse rejects before any alert is sent.  GET
\* returned that promise without awaiting it (lines 227 and 254), so the catch
\* block of GET does not run and the promise of GET rejects with the error
processUsageResponse_saveRejects ==
  /\ pc = "process"
  /\ LET r == Evaluate(local.usage, local.state, local.now)
     IN local' = [local EXCEPT !.state = r.state, !.alerts = r.alerts]
  /\ alertStateFile' \in FailedSave(alertStateFile)
  /\ trace' = [trace EXCEPT !.outcome = "rejected"]
  /\ pc' = "rejected"
  /\ UNCHANGED <<clock, hist, mode, suspended>>

\* the promise of GET has rejected: the scheduler may start the next check
GET_rejected ==
  /\ pc = "rejected"
  /\ pc' = "idle"
  /\ clock' = clock + 1
  /\ local' = IdleLocal
  /\ trace' = NewTrace
  /\ hist' = [hist EXCEPT !.prev = "rejected"]
  /\ UNCHANGED <<alertStateFile, mode, suspended>>

FaultNext ==
  \/ GET_load
  \/ GET_credentials
  \/ GET_fetch
  \/ GET_retry
  \/ GET_sendAuthAlert
  \/ GET_saveAuthAlert
  \/ GET_saveAuthAlertRejects
  \/ processUsageResponse_evaluate
  \/ processUsageResponse_saveRejects
  \/ processUsageResponse_send
  \/ processUsageResponse_return
  \/ GET_return
  \/ GET_rejected

FaultInit == Start([checks |-> MaxFaultChecks, deliveries |-> FALSE, resets |-> FALSE,
         credentials |-> FALSE, outages |-> FALSE])

\* sequential checks against a state file whose writes can fail
FaultSpec == FaultInit /\ [][FaultNext]_vars


\* ---------------------------------------------------------------- properties

\* the state the text of the file stands for
Stored == JSONparse(alertStateFile.content)

Thresholds(w) == IF w = "five_hour" THEN FIVE_HOUR_THRESHOLDS ELSE WEEKLY_THRESHOLDS

AlertedOf(s, w) == IF w = "five_hour" THEN s.fiveHourAlerted ELSE s.weeklyAlerted

ResetAtOf(s, w) == IF w = "five_hour" THEN s.fiveHourResetAt ELSE s.weeklyResetAt

\* the percent and the resets_at of window w in the response of the running check
Percent(w) == MathRound(local.usage[w].utilization)

SnapshotReset(w) == local.usage[w].resets_at

\* the alert messages of window w, in the order they were generated
AlertsFor(w) == SelectSeq(local.alerts, LAMBDA a : a.window = w)

ThresholdsOf(msgs) == {msgs[k].threshold : k \in DOMAIN msgs}

\* the thresholds of window w handed to the notifier by the running check
NotifiedNow(w) == NotifiedFor(w, trace.notified)

\* the evaluation of processUsageResponse is done and the state is written;
\* no alert has been sent yet
Evaluated == pc = "dispatch" /\ local.i = 1

Succeeded == pc = "return" /\ trace.outcome = "success"

HardFailed == pc = "return" /\ trace.outcome = "hard"

\* the response of the running check is in the window instance of the last
\* successful check
SameInstance(w) == SnapshotReset(w) # NULL /\ SnapshotReset(w) = hist[w].resetAt

\* the running check sees a new window: both resets_at non-null and different
RolloverSeen(w) ==
  /\ SnapshotReset(w) # NULL
  /\ ResetAtOf(trace.loaded, w) # NULL
  /\ SnapshotReset(w) # ResetAtOf(trace.loaded, w)

\* C1: over successful checks that see the same non-null resets_at of a window
\* (whatever the percent does, so in particular when it never decreases), a
\* threshold of that window is handed to the notifier in at most one check,
\* and at most once in that check.
ExactlyOncePerWindowInstance ==
  trace.notified # <<>> =>
    \A w \in Windows :
      LET mine == SelectSeq(trace.notified, LAMBDA a : a.window = w)
      IN /\ \A i, j \in DOMAIN mine : mine[i].threshold = mine[j].threshold => i = j
         /\ SameInstance(w) => ThresholdsOf(mine) \cap hist[w].sent = {}

\* a second successful check in the same weekly window: 50 was notified by an
\* earlier check and is not notified again, although the percent is now 97 and
\* 75, 90 and 95 are
ExactlyOnceWitness ==
  /\ Succeeded
  /\ SameInstance("seven_day")
  /\ 50 \in hist["seven_day"].sent
  /\ Percent("seven_day") = 97
  /\ NotifiedNow("seven_day") = {75, 90, 95}

\* the alerted set of window w after the rollover handling of the running check
AlertedAfterRollover(w) ==
  IF RolloverSeen(w) THEN {} ELSE Elems(AlertedOf(trace.loaded, w))

NewCrossings(w) ==
  {T \in Elems(Thresholds(w)) : Percent(w) >= T /\ T \notin AlertedAfterRollover(w)}

\* C2: in a successful check the alerts of a window are exactly one message
\* for every configured threshold T with percent >= T that is not in the
\* alerted set after rollover handling, in ascending threshold order, and each
\* such T is added to the alerted set.
ThresholdEvaluation ==
  Evaluated =>
    \A w \in Windows :
      LET msgs == AlertsFor(w)
      IN /\ ThresholdsOf(msgs) = NewCrossings(w)
         /\ Len(msgs) = Cardinality(NewCrossings(w))
         /\ \A i, j \in DOMAIN msgs : i < j => msgs[i].threshold < msgs[j].threshold
         /\ Elems(AlertedOf(local.state, w)) = AlertedAfterRollover(w) \cup NewCrossings(w)

\* the 5-hour example: empty alerted set, same resets_at, percent 80: one
\* alert, for 75, and the alerted set becomes [75]
ThresholdEvaluationWitness ==
  /\ Evaluated
  /\ trace.loaded.fiveHourAlerted = <<>>
  /\ trace.loaded.fiveHourResetAt # NULL
  /\ trace.loaded.fiveHourResetAt = SnapshotReset("five_hour")
  /\ Percent("five_hour") = 80
  /\ ThresholdsOf(AlertsFor("five_hour")) = {75}
  /\ Len(AlertsFor("five_hour")) = 1
  /\ local.state.fiveHourAlerted = <<75>>

\* C3: when the stored and the new resets_at of a window are both non-null and
\* differ, the alerted set is emptied before the thresholds are evaluated (so
\* afterwards it holds the thresholds crossed now and nothing else, and each of
\* them is alerted) and the new resets_at is stored as the watermark.
RolloverHandling ==
  Evaluated =>
    \A w \in Windows :
      RolloverSeen(w) =>
        LET crossed == {T \in Elems(Thresholds(w)) : Percent(w) >= T}
        IN /\ Elems(AlertedOf(local.state, w)) = crossed
           /\ ThresholdsOf(AlertsFor(w)) = crossed
           /\ alertStateFile.exists
           /\ AlertedOf(Stored, w) = AlertedOf(local.state, w)
           /\ ResetAtOf(Stored, w) = SnapshotReset(w)

\* the weekly example: 50 and 75 alerted under the old resets_at, 60 percent
\* under a new one: one alert, for 50, and the file holds [50] and the new
\* resets_at
RolloverHandlingWitness ==
  /\ Evaluated
  /\ RolloverSeen("seven_day")
  /\ {50, 75} \subseteq Elems(trace.loaded.weeklyAlerted)
  /\ Percent("seven_day") = 60
  /\ Len(AlertsFor("seven_day")) = 1
  /\ ThresholdsOf(AlertsFor("seven_day")) = {50}
  /\ Stored.weeklyAlerted = <<50>>
  /\ Stored.weeklyResetAt = SnapshotReset("seven_day")
  /\ Stored.weeklyResetAt # trace.loaded.weeklyResetAt

\* the resets_at of the running check was first seen by a check that saw it
\* replace another non-null resets_at (that check may be the running one)
InRolledInstance(w) ==
  /\ SnapshotReset(w) # NULL
  /\ hist[w].resetAt # NULL
  /\ (SnapshotReset(w) # hist[w].resetAt \/ hist[w].phase # "none")

\* the thresholds notified by earlier checks under the resets_at of the running one
SentInInstance(w) == IF SameInstance(w) THEN hist[w].sent ELSE {}

\* C4: in a window instance that began with a rollover, the successful check
\* that first sees percent >= T hands a notification for T to the notifier,
\* whatever was alerted under the previous resets_at.
RolloverRearms ==
  Succeeded =>
    \A w \in Windows :
      InRolledInstance(w) =>
        \A T \in Elems(Thresholds(w)) :
          (Percent(w) >= T /\ T \notin SentInInstance(w)) => T \in NotifiedNow(w)

\* the lowest threshold was notified under the old resets_at, the check that
\* saw the new one saw a percent below every threshold, and a later check under
\* the new one notifies the lowest threshold again
RolloverRearmsWitness ==
  /\ Succeeded
  /\ \E w \in Windows :
       /\ SameInstance(w)
       /\ hist[w].phase = "rearmed"
       /\ Thresholds(w)[1] \notin hist[w].sent
       /\ Thresholds(w)[1] \in NotifiedNow(w)

\* C5: between two successful usage fetches, at most one auth-failure
\* notification is sent, however many checks end in a hard credential failure.
AuthAlertDedup == hist.authSent <= 1

\* a second hard failure in a row that sends nothing, the first one having sent
AuthAlertDedupWitness ==
  /\ HardFailed
  /\ hist.prev = "hard"
  /\ hist.authSent = 1
  /\ trace.authSends = <<>>
  /\ trace.loaded.authErrorAlerted

\* C6: a check whose usage fetch succeeded leaves authErrorAlerted = false, so
\* that a hard failure right after a successful check sends an auth-failure
\* notification.
AuthAlertRearm ==
  (HardFailed /\ hist.prev = "success") => Len(trace.authSends) = 1

\* C7: a check whose usage fetch succeeded (at once or on the retry) evaluates
\* the thresholds with authErrorAlerted = false and lastAuthError = null, and
\* the state it writes has them so.
SuccessClearsAuthFlag ==
  /\ pc \in {"process", "dispatch"} =>
       (~local.state.authErrorAlerted /\ local.state.lastAuthError = NULL)
  /\ Succeeded =>
       (~Stored.authErrorAlerted
          /\ Stored.lastAuthError = NULL)

\* C8: after a proactive refresh attempt a fetch is issued only with a usable
\* credential: a token that is present and not within 5 minutes of its expiry.
NoFetchWithUnusableCredential ==
  (pc = "fetch" /\ trace.proactiveRefreshes = 1) =>
    (local.accessToken # NULL /\ ~TokenExpired(local.expiresAt, local.now))

\* C9: a check issues at most two usage fetches; after a 401/403 on the first
\* one it refreshes once and retries at most once, with the re-read token; and
\* when the refresh fails, yields no token or the retry is not OK, the check is
\* in the auth-failure block with no further fetch or refresh.
OneShotRecovery ==
  /\ trace.fetches <= 2
  /\ trace.reactiveRefreshes = (IF trace.first = "auth" THEN 1 ELSE 0)
  /\ trace.first # "auth" => (trace.fetches <= 1 /\ trace.retry = "none")
  /\ pc = "retry" => (trace.fetches = 2 /\ local.retryToken \in Tokens)
  /\ (trace.first = "auth" /\ pc # "retry" /\ trace.retry \in {"none", "auth", "other"})
       => /\ trace.outcome = "hard"
          /\ pc \in {"authAlert", "authSave", "return"}
          /\ trace.fetches = (IF trace.retry = "none" THEN 1 ELSE 2)

\* a 401/403, a refresh, a retry that is not OK, and the check ends in the
\* auth-failure block after two fetches and one refresh
OneShotRecoveryWitness ==
  /\ HardFailed
  /\ trace.first = "auth"
  /\ trace.retry \in {"auth", "other"}
  /\ trace.fetches = 2
  /\ trace.reactiveRefreshes = 1
  /\ Len(trace.authSends) = 1

\* C10: every check has written the state file, with the state it ends with,
\* when it returns.
UnconditionalPersistence ==
  pc = "return" => (trace.saves >= 1 /\ alertStateFile = saveAlertState(local.state))

\* C11: whatever fails (credential read, refresh, usage fetch, body parse,
\* notifier, store read, store write), GET answers with a response: its promise
\* never rejects, in particular not when the write of the state file fails in
\* processUsageResponse.
NoFailureEscapes == pc # "rejected"

\* C12: a successful check hands every alert message it generated to the
\* notifier exactly once, in the order of generation (the 5-hour alerts before
\* the weekly ones), whatever the notifier returns, and reports as sent the
\* number of deliveries that returned success and as triggered the number of
\* messages.
NoEarlyAbort ==
  Succeeded =>
    /\ trace.notified = local.alerts
    /\ Len(trace.delivered) = Len(local.alerts)
    /\ \A i, j \in DOMAIN trace.notified :
         (trace.notified[i].window = "five_hour"
            /\ trace.notified[j].window = "seven_day") => i < j
    /\ local.result.alertsTriggered = Len(local.alerts)
    /\ local.result.alertsSent =
         Cardinality({k \in DOMAIN trace.delivered : trace.delivered[k]})
    /\ local.result.alertsSent <= local.result.alertsTriggered

\* a check with a 5-hour and four weekly alerts whose first and third
\* deliveries fail: all five are handed over and three are reported sent
NoEarlyAbortWitness ==
  /\ Succeeded
  /\ Len(local.alerts) = 5
  /\ local.alerts[1].window = "five_hour"
  /\ trace.delivered = <<FALSE, TRUE, FALSE, TRUE, TRUE>>
  /\ Len(trace.notified) = 5
  /\ local.result.alertsSent = 3

\* the thresholds of window w the notifier did not deliver in the running check
UndeliveredNow(w) == UndeliveredFor(w, trace.notified, trace.delivered)

\* C13: a threshold whose notification was not delivered in a successful check
\* is in the alerted list of the state file after that check, stays there
\* while resets_at is unchanged, and is not handed to the notifier again by a
\* later check that sees the same resets_at.
DeliveryFailureKeepsDedup ==
  /\ trace.notified # <<>> =>
       \A w \in Windows :
         SameInstance(w) => hist[w].undelivered \cap NotifiedNow(w) = {}
  /\ Succeeded =>
       \A w \in Windows :
         /\ UndeliveredNow(w) \subseteq Elems(AlertedOf(Stored, w))
         /\ SameInstance(w) =>
              hist[w].undelivered \subseteq Elems(AlertedOf(Stored, w))

\* the delivery of the weekly alert for 50 failed in an earlier check; a later
\* check under the same resets_at sees 97 percent, notifies 75, 90 and 95 and
\* not 50, and 50 is still in the file
DeliveryFailureWitness ==
  /\ Succeeded
  /\ SameInstance("seven_day")
  /\ 50 \in hist["seven_day"].undelivered
  /\ Percent("seven_day") = 97
  /\ NotifiedNow("seven_day") = {75, 90, 95}
  /\ Includes(Stored.weeklyAlerted, 50)

\* C14: the engine takes no lock and does no compare-and-swap: a check
\* evaluates the thresholds against the state it read at its start, whatever
\* the file holds by then, and writes its own state over the file; so two
\* checks that both read the file before either writes it can both notify the
\* same threshold under the same resets_at.
NoMutualExclusion ==
  Evaluated =>
    /\ alertStateFile = saveAlertState(local.state)
    /\ \A w \in Windows :
         /\ ThresholdsOf(AlertsFor(w)) = NewCrossings(w)
         /\ Elems(AlertedOf(Stored, w))
              = AlertedAfterRollover(w) \cup NewCrossings(w)

\* two checks have read the missing state file before either wrote it; the
\* other one has notified a threshold and returned, and the running one, which
\* saw the same resets_at, has notified that threshold too
DoubleNotification ==
  /\ Succeeded
  /\ clock = 2
  /\ hist.prev = "success"
  /\ trace.loaded = DefaultState
  /\ \E w \in Windows :
       /\ SameInstance(w)
       /\ NotifiedNow(w) \cap hist[w].sent # {}

\* the thresholds of window w handed to the notifier, by the running check or
\* an earlier one, in a successful check that saw resets_at r
DispatchedUnder(w, r) ==
  (IF r \in DOMAIN hist.dispatched[w] THEN hist.dispatched[w][r] ELSE {})
    \cup (IF SnapshotReset(w) = r THEN NotifiedNow(w) ELSE {})

\* C15: in the state a successful check of a sequence of checks leaves in the
\* file, a threshold is in the alerted list of a window if and only if a
\* notification for it has been handed to the notifier under the resets_at the
\* file holds for that window (a notification handed over while resets_at was
\* absent counts for whichever resets_at is stored).
DedupSetInvariant ==
  Succeeded =>
    \A w \in Windows :
      LET stored == ResetAtOf(Stored, w)
          alerted == Elems(AlertedOf(Stored, w))
      IN stored # NULL =>
           /\ DispatchedUnder(w, stored) \subseteq alerted
           /\ alerted \subseteq DispatchedUnder(w, stored) \cup DispatchedUnder(w, NULL)

\* C16: when the state file is missing or its text is not JSON, loadAlertState
\* yields the zero-value state and the check goes on with it: GET does not end
\* at the load (a check that ends by rejecting has issued its fetch).
StoreReadFallback ==
  trace.source \in {"missing", "unparsable"} =>
    /\ trace.loaded = DefaultState
    /\ pc = "credentials" => (local.state = DefaultState /\ local.result = NoResult)
    /\ pc = "rejected" => trace.fetches >= 1

\* a check that found a partly written file, went on with the zero-value
\* state, notified the thresholds crossed and succeeded
StoreReadFallbackWitness ==
  /\ Succeeded
  /\ trace.source = "unparsable"
  /\ trace.loaded = DefaultState
  /\ trace.notified # <<>>
  /\ alertStateFile.parses

UsableExactlyWhenBeforeMargin ==
  /\ pc \in {"load", "credentials"} =>
       (trace.proactiveRefreshes = 0 /\ trace.fetches = 0)
  /\ trace.read.done =>
       LET usable == /\ trace.read.present
                     /\ trace.read.expiresAt # NULL
                     /\ local.now < trace.read.expiresAt - GraceMs
       IN trace.proactiveRefreshes = (IF usable THEN 0 ELSE 1)

\* C18 amended: once a check has read the credentials, it has attempted no
\* proactive refresh exactly when a token was present and the expiry was
\* missing or now <= expiresAt - 5 minutes; in every other case (token
\* missing, or now > expiresAt - 5 minutes) it has called the refresh exactly
\* once, before any usage fetch.
UsableUnlessMissingOrPastMargin ==
  /\ pc \in {"load", "credentials"} =>
       (trace.proactiveRefreshes = 0 /\ trace.fetches = 0)
  /\ trace.read.done =>
       LET usable == /\ trace.read.present
                     /\ \/ trace.read.expiresAt = NULL
                        \/ local.now <= trace.read.expiresAt - GraceMs
       IN trace.proactiveRefreshes = (IF usable THEN 0 ELSE 1)

\* a token whose expiry is exactly 5 minutes ahead was read and the fetch is
\* issued without a refresh
UsableOnMarginWitness ==
  /\ pc = "fetch"
  /\ trace.read.done
  /\ trace.read.present
  /\ trace.read.expiresAt = local.now + GraceMs
  /\ trace.proactiveRefreshes = 0
  /\ trace.fetches = 1

\* C19: a check whose usage fetch failed with a network error or a status
\* other than 2xx, 401 and 403 has issued no second fetch and returns a failed
\* result, and the state file then holds the state the check loaded with
\* lastCheck set to the time of the check.
TransientFailurePersistsLastCheck ==
  (pc = "return" /\ trace.first \in {"other", "threw"}) =>
    /\ trace.fetches = 1
    /\ trace.retry = "none"
    /\ local.result.status = 500
    /\ loadAlertState(alertStateFile) = [trace.loaded EXCEPT !.lastCheck = local.now]

\* the thresholds of a sequence of alert messages, in its order
ThresholdSeq(msgs) == [k \in DOMAIN msgs |-> msgs[k].threshold]

\* C20: when a check evaluates a weekly window whose alerted list was not
\* cleared (the resets_at is unchanged), its weekly alerts are, in the order of
\* the configured thresholds, those the percent has reached and the loaded
\* alerted list does not hold, whether or not an earlier check skipped them; in
\* particular at 97 percent with only 50 alerted (as a check at 60 percent
\* leaves it) they are 75, 90 and 95, in that order, and no other.
MultiThresholdJump ==
  (Evaluated /\ ~RolloverSeen("seven_day")) =>
    LET fired == ThresholdSeq(AlertsFor("seven_day"))
        before == trace.loaded.weeklyAlerted
    IN /\ fired = SelectSeq(WEEKLY_THRESHOLDS,
                             LAMBDA T : Percent("seven_day") >= T /\ ~Includes(before, T))
       /\ (Percent("seven_day") = 97 /\ before = <<50>>) =>
            (fired = <<75, 90, 95>> /\ Len(AlertsFor("seven_day")) = 3)

\* the weekly window stood at 60 percent in the earlier checks of this window
\* instance, which notified 50 only; the running check sees 97 percent under
\* the same resets_at and has generated the alerts for 75, 90 and 95
MultiThresholdJumpWitness ==
  /\ Evaluated
  /\ SameInstance("seven_day")
  /\ hist["seven_day"].sent = {50}
  /\ trace.loaded.weeklyAlerted = <<50>>
  /\ Percent("seven_day") = 97
  /\ ThresholdSeq(AlertsFor("seven_day")) = <<75, 90, 95>>
  /\ local.state.weeklyAlerted = <<50, 75, 90, 95>>

\* the usage fetch of the running check (the first one, or the retried one by
\* rejecting) failed with an error that is not a 401 or 403, and the check is
\* about to return
GenericFetchFailed ==
  /\ pc = "return"
  /\ trace.outcome = "generic"
  /\ (trace.first \in {"other", "threw"} \/ trace.retry = "threw")

\* C21: a check whose usage fetch failed with a non-authorization error has
\* evaluated nothing (no usage body, no alert message, alerted lists and
\* resets_at of its state as loaded), has handed nothing to the notifier
\* (threshold alert or auth-failure alert), and the state file still holds the
\* alerted lists, the resets_at, authErrorAlerted and lastAuthError it held
\* when the check loaded it.
GenericFailureFrame ==
  GenericFetchFailed =>
    /\ local.usage = NoUsage
    /\ local.alerts = <<>>
    /\ \A w \in Windows :
         /\ AlertedOf(local.state, w) = AlertedOf(trace.loaded, w)
         /\ ResetAtOf(local.state, w) = ResetAtOf(trace.loaded, w)
    /\ trace.notified = <<>>
    /\ trace.authSends = <<>>
    /\ LET after == loadAlertState(alertStateFile)
       IN \A f \in {"fiveHourAlerted", "weeklyAlerted", "fiveHourResetAt",
                     "weeklyResetAt", "authErrorAlerted", "lastAuthError"} :
            after[f] = trace.loaded[f]

\* the usage fetch rejected in a check that had loaded a weekly alerted list
\* and a resets_at written by an earlier check; the file holds them still
GenericFailureFrameWitness ==
  /\ GenericFetchFailed
  /\ trace.first = "threw"
  /\ trace.loaded.weeklyAlerted # <<>>
  /\ trace.loaded.weeklyResetAt # NULL
  /\ Stored.weeklyAlerted = trace.loaded.weeklyAlerted
  /\ ~Stored.authErrorAlerted

\* C22: a check that ends in a hard failure and had loaded authErrorAlerted =
\* false has called the notifier exactly once, for the auth-failure alert, and
\* then written authErrorAlerted = true and lastAuthError = now, whatever the
\* notifier returned; one that had loaded authErrorAlerted = true has called
\* the notifier not at all.  So while the auth-failure alert sent since the
\* last successful check is an undelivered one, it is the only one sent.
AuthAlertStep ==
  /\ pc = "authSave" => (Len(trace.authSends) = 1 /\ trace.saves = 0)
  /\ HardFailed =>
       /\ trace.notified = <<>>
       /\ IF trace.loaded.authErrorAlerted
          THEN trace.authSends = <<>>
          ELSE /\ Len(trace.authSends) = 1
               /\ trace.saves = 1
               /\ Stored.authErrorAlerted
               /\ Stored.lastAuthError = local.now
  /\ hist.authUndelivered =>
       /\ hist.authSent = 1
       /\ pc # "idle" => (trace.authSends \in {<<>>, <<FALSE>>})
       /\ (pc = "return" /\ trace.outcome # "success") => Stored.authErrorAlerted

\* the check before ended in a hard failure whose alert the notifier did not
\* deliver; the running check ends in a hard failure too and has called the
\* notifier not at all
AuthAlertStepWitness ==
  /\ HardFailed
  /\ hist.prev = "hard"
  /\ hist.authUndelivered
  /\ trace.loaded.authErrorAlerted
  /\ trace.loaded.lastAuthError = local.now - 1
  /\ trace.authSends = <<>>

\* the state file holds the decision behind every threshold alert the running
\* check has handed to the notifier
NotifiedThresholdsStored ==
  \A k \in DOMAIN trace.notified :
    /\ SourceOf(alertStateFile) = "parsed"
    /\ Includes(AlertedOf(Stored, trace.notified[k].window), trace.notified[k].threshold)

\* C23 as stated: whenever the running check has handed a notification to the
\* notifier, the state file already holds the decision behind it: the
\* threshold in the alerted list of its window for a threshold alert,
\* authErrorAlerted = true for an auth-failure alert.
PersistBeforeDispatch ==
  /\ NotifiedThresholdsStored
  /\ trace.authSends # <<>> =>
       (SourceOf(alertStateFile) = "parsed" /\ Stored.authErrorAlerted)

\* C23 amended: a threshold alert is handed to the notifier only after the
\* state file holds its threshold in the alerted list of its window; the
\* auth-failure alert is handed to the notifier before authErrorAlerted = true
\* is written (when the check is about to write it, the alert has been sent
\* and the check has written nothing).
PersistBeforeThresholdDispatch ==
  /\ NotifiedThresholdsStored
  /\ trace.notified # <<>> => trace.saves = 1
  /\ pc = "authAlert" => (trace.authSends = <<>> /\ trace.saves = 0)
  /\ pc = "authSave" =>
       /\ Len(trace.authSends) = 1
       /\ trace.saves = 0
       /\ local.state.authErrorAlerted
       /\ ~loadAlertState(alertStateFile).authErrorAlerted

\* the write of authErrorAlerted failed after the auth-failure alert of the
\* check before had been sent, and the running check has sent the alert of the
\* same outage again
DuplicateOutageAlertWitness ==
  /\ pc = "authSave"
  /\ hist.prev = "generic"
  /\ hist.authSent = 2
  /\ Len(trace.authSends) = 1
  /\ ~trace.loaded.authErrorAlerted

\* list a is the beginning of list b
IsPrefix(a, b) == Len(a) <= Len(b) /\ SubSeq(b, 1, Len(a)) = a

\* C24: once a successful check has written its state, and until it returns,
\* the file holds as fiveHourResetAt and weeklyResetAt the resets_at of the
\* response (null when the response has none, equal or not to what was stored)
\* and as lastCheck the time of the check; and a window whose stored resets_at
\* was null when the check loaded the state keeps every threshold of its
\* alerted list.
WatermarkUpdate ==
  (pc = "dispatch" \/ Succeeded) =>
    /\ SourceOf(alertStateFile) = "parsed"
    /\ Stored.fiveHourResetAt = SnapshotReset("five_hour")
    /\ Stored.weeklyResetAt = SnapshotReset("seven_day")
    /\ Stored.lastCheck = local.now
    /\ \A w \in Windows :
         ResetAtOf(trace.loaded, w) = NULL =>
           IsPrefix(AlertedOf(trace.loaded, w), AlertedOf(Stored, w))

\* a successful check that loaded a null weeklyResetAt (an earlier response
\* had no weekly resets_at) with a weekly alerted list, and whose response has a
\* resets_at: the file holds that resets_at and the time of the check, and the
\* alerted list was not cleared
WatermarkUpdateWitness ==
  /\ Succeeded
  /\ trace.loaded.weeklyResetAt = NULL
  /\ trace.loaded.weeklyAlerted # <<>>
  /\ SnapshotReset("seven_day") # NULL
  /\ Stored.weeklyResetAt = SnapshotReset("seven_day")
  /\ Stored.fiveHourResetAt = SnapshotReset("five_hour")
  /\ Stored.lastCheck = local.now
  /\ IsPrefix(trace.loaded.weeklyAlerted, Stored.weeklyAlerted)

\* C25: a check does not wait for a usage fetch for ever: when it has issued
\* the first or the retried fetch, the fetch ends (answered, failed or cut off
\* by a timeout) and the check goes on to its next step.
UsageFetchIsCutOff ==
  (pc \in {"fetch", "retry"}) ~> (pc \notin {"fetch", "retry"})

\* the marker the claim gives a threshold
MarkerOf(threshold) ==
  IF threshold >= 100 THEN "red"
  ELSE IF threshold >= 95 THEN "orange"
  ELSE IF threshold >= 90 THEN "yellow"
  ELSE IF threshold >= 75 THEN "yellow"
  ELSE "warning"

\* every alert message of the running check carries the marker of the
\* threshold that fired, whatever the percent
MarkerByThreshold ==
  \A k \in DOMAIN local.alerts : local.alerts[k].emoji = MarkerOf(local.alerts[k].threshold)

\* C26 as stated: the marker of an alert is that of its threshold (100 and
\* above, 95, 90, 75 and above, else the default one), and no threshold of
\* FIVE_HOUR_THRESHOLDS or WEEKLY_THRESHOLDS, hence no alert, gets the default
\* marker.
SeverityMarker ==
  /\ MarkerByThreshold
  /\ \A T \in Elems(FIVE_HOUR_THRESHOLDS) \cup Elems(WEEKLY_THRESHOLDS) :
       getAlertEmoji(T) # "warning"
  /\ \A k \in DOMAIN local.alerts : local.alerts[k].emoji # "warning"

\* C26 amended: the marker of an alert is that of its threshold, and the
\* default marker is the marker of exactly one configured threshold, the
\* weekly 50: no 5-hour alert carries it, and a weekly alert carries it exactly
\* when its threshold is 50.
SeverityMarkerBut50 ==
  /\ MarkerByThreshold
  /\ \A T \in Elems(FIVE_HOUR_THRESHOLDS) : getAlertEmoji(T) # "warning"
  /\ \A T \in Elems(WEEKLY_THRESHOLDS) : (getAlertEmoji(T) = "warning") <=> (T = 50)
  /\ \A k \in DOMAIN local.alerts :
       (local.alerts[k].emoji = "warning") <=>
         (local.alerts[k].window = "seven_day" /\ local.alerts[k].threshold = 50)

\* a check at 97 percent of the weekly window has generated the alert of 50
\* with the default marker and the alerts of 75 and 95 with the markers of 75
\* and 95
SeverityMarkerWitness ==
  /\ Evaluated
  /\ \E i, j, k \in DOMAIN local.alerts :
       /\ local.alerts[i] = [window |-> "seven_day", threshold |-> 50,
                             emoji |-> "warning", percent |-> 97]
       /\ local.alerts[j] = [window |-> "seven_day", threshold |-> 75,
                             emoji |-> "yellow", percent |-> 97]
       /\ local.alerts[k] = [window |-> "seven_day", threshold |-> 95,
                             emoji |-> "orange", percent |-> 97]

\* what the evaluation of window w yields from that window's own percent,
\* resets_at, alerted list, stored resets_at and thresholds
AloneOf(w) ==
  CheckThresholds(Thresholds(w), w, Percent(w),
                  ResetAlerted(AlertedOf(trace.loaded, w), SnapshotReset(w),
                               ResetAtOf(trace.loaded, w)),
                  <<>>)

\* C27: the alerts of a window and its alerted list after the evaluation are
\* those its own percent, resets_at, alerted list, stored resets_at and
\* thresholds give, whatever the other window's are; so a rollover of the
\* other window alone leaves the list of this one with all it held.
WindowIndependence ==
  Evaluated =>
    \A w \in Windows :
      /\ AlertedOf(local.state, w) = AloneOf(w).alerted
      /\ AlertsFor(w) = AloneOf(w).alerts
      /\ \A o \in Windows \ {w} :
           (RolloverSeen(o) /\ ~RolloverSeen(w)) =>
             IsPrefix(AlertedOf(trace.loaded, w), AlertedOf(local.state, w))

\* the 5-hour window rolled over and its alerted list was cleared, at a percent
\* below its thresholds; the weekly window did not, and its alerted list is
\* the one that was loaded
WindowIndependenceWitness ==
  /\ Evaluated
  /\ RolloverSeen("five_hour")
  /\ trace.loaded.fiveHourAlerted # <<>>
  /\ local.state.fiveHourAlerted = <<>>
  /\ ~RolloverSeen("seven_day")
  /\ trace.loaded.weeklyAlerted # <<>>
  /\ local.state.weeklyAlerted = trace.loaded.weeklyAlerted

\* the thresholds of window w handed to the notifier by earlier successful
\* checks that saw resets_at r
DispatchedBefore(w, r) ==
  IF r \in DOMAIN hist.dispatched[w] THEN hist.dispatched[w][r] ELSE {}

\* the running check sees a resets_at of window w after a gap: the stored one
\* is null, and an earlier successful check saw another resets_at
AfterGap(w) ==
  /\ SnapshotReset(w) # NULL
  /\ ResetAtOf(trace.loaded, w) = NULL
  /\ \E r \in DOMAIN hist.dispatched[w] : r # NULL /\ r # SnapshotReset(w)

\* C28: a successful check that sees a resets_at of a window after a gap (an
\* earlier successful check saw another resets_at, the last one saw none)
\* leaves in the alerted list nothing of the earlier instance, and notifies
\* every threshold the percent has reached that was not notified under this
\* resets_at or during the gap.
RolloverAcrossGap ==
  Succeeded =>
    \A w \in Windows :
      AfterGap(w) =>
        LET known == DispatchedBefore(w, SnapshotReset(w)) \cup DispatchedBefore(w, NULL)
        IN /\ Elems(AlertedOf(Stored, w)) \subseteq known \cup NotifiedNow(w)
           /\ \A T \in Elems(Thresholds(w)) :
                (Percent(w) >= T /\ T \notin known) => T \in NotifiedNow(w)

\* C29: a check whose evaluation generated alert messages and whose write of
\* the state file failed has handed every one of these messages to the
\* notifier when it ends.
WriteFailureKeepsNotifications ==
  (pc = "rejected" /\ local.alerts # <<>>) => trace.notified = local.alerts

\* list a holds no value twice
DuplicateFree(a) == \A i, j \in DOMAIN a : a[i] = a[j] => i = j

\* C30: in every state the checks have written, fiveHourAlerted is a
\* duplicate-free list of values of {75, 90, 95, 100} and weeklyAlerted one of
\* values of {50, 75, 90, 95, 100}; in the state a successful check has written
\* each list holds every threshold of its window that the percent has reached,
\* and, when the resets_at of the window is the non-null one that was stored,
\* everything the list held before; and a check that is not successful writes
\* the lists back as they were.
DedupSetShape ==
  /\ SourceOf(alertStateFile) = "parsed" =>
       /\ DuplicateFree(Stored.fiveHourAlerted)
       /\ DuplicateFree(Stored.weeklyAlerted)
       /\ Elems(Stored.fiveHourAlerted) \subseteq {75, 90, 95, 100}
       /\ Elems(Stored.weeklyAlerted) \subseteq {50, 75, 90, 95, 100}
  /\ (pc = "dispatch" \/ Succeeded) =>
       \A w \in Windows :
         /\ \A T \in Elems(Thresholds(w)) :
              Percent(w) >= T => T \in Elems(AlertedOf(Stored, w))
         /\ (SnapshotReset(w) # NULL /\ SnapshotReset(w) = ResetAtOf(trace.loaded, w)) =>
              Elems(AlertedOf(trace.loaded, w)) \subseteq Elems(AlertedOf(Stored, w))
  /\ (pc = "return" /\ trace.outcome # "success" /\ trace.saves >= 1) =>
       \A w \in Windows : AlertedOf(Stored, w) = AlertedOf(trace.loaded, w)

\* a successful check under the stored weekly resets_at, at 97 percent on a
\* list that held 50, and at 75 percent of the 5-hour window: the file holds
\* [50, 75, 90, 95] and a 5-hour list with 75
DedupSetShapeWitness ==
  /\ Succeeded
  /\ SnapshotReset("seven_day") # NULL
  /\ SnapshotReset("seven_day") = trace.loaded.weeklyResetAt
  /\ trace.loaded.weeklyAlerted = <<50>>
  /\ Percent("seven_day") = 97
  /\ Stored.weeklyAlerted = <<50, 75, 90, 95>>
  /\ Percent("five_hour") = 75
  /\ 75 \in Elems(Stored.fiveHourAlerted)

====
